---- MODULE Spec2Model ----
(***************************************************************************)
(* Model of skewkiller.py: the time-override transaction of main() and the *)
(* methods of CustomTimeManager.                                           *)
(*                                                                         *)
(* Time is counted in units of 25 ms.  The process runs single-threaded;   *)
(* pc is the statement about to be executed, stack holds the return        *)
(* locations of the calls in progress, rv the value of the last return.    *)
(* Printing and log formatting are taken not to raise.                     *)
(***************************************************************************)
EXTENDS Integers, Sequences, FiniteSets

\* ---------------------------------------------------------------- bounds
MaxElapsed == 3   \* number of clock advances observed in one run
MaxSkew == 5      \* largest |authority clock - local clock|, 25 ms units
MaxCalls == 2     \* number of method calls a direct client makes
MaxSignals == 2   \* number of signals delivered to one run

\* ------------------------------------------------------------- constants
Threshold == 4                   \* line 198: 0.1 s in units of 25 ms
TicksPerSec == 10 * Threshold    \* one second
MinReply == 48                   \* line 98: shortest valid reply, bytes
StartTime == 2 * TicksPerSec     \* reading of the wall clock at start-up

VARIABLES
    pc,             \* statement about to run
    stack,          \* return locations of the calls in progress
    rv,             \* value returned by the last bool-valued call
    is_root,        \* os.geteuid() == 0
    libc,           \* self.libc is not None
    original_time,  \* self.original_time: <<>> is None, <<t>> a value
    wall,           \* the system wall clock
    real,           \* what the wall clock would read had it never been written
    skew,           \* authority clock minus untouched local clock
    server_ip,      \* self.server_ip: "" empty, "host" a name, "ip" an address
    elapsed,        \* clock advances so far
    send_time,      \* get_ntp_time: send_time
    ntp_result,     \* value returned by get_ntp_time: <<>> is None
    timestamp,      \* set_system_time: its argument
    attempts,       \* set_system_time: the mechanisms tried by the current
                    \* call, in order, each with its outcome
    success,        \* main: verdict of execute_command ("none" before)
    pending,        \* a SystemExit is propagating through the finally block
    exitCode,       \* process exit status (meaningful once pc = "exit")
    save_result,    \* result of save_current_time seen by main
    sync_result,    \* result of sync_time_with_server seen by main
    restore_result, \* result of restore_original_time seen by main
    nSignals,       \* signals delivered
    sigInWindow,    \* a signal was delivered with the snapshot taken and
                    \* restore_original_time not yet called
    raised,         \* an Exception reached the except clause of main
    syncDelta,      \* change of the wall clock made by the sync stage's write
    sync_diff,      \* sync_time_with_server: <<time_diff>> once computed
    set_calls,      \* the calls of set_system_time: <<caller, timestamp>>
    nSnap,          \* snapshots captured
    nQuery,         \* requests sent to the time server
    nWrites,        \* invocations of a clock write mechanism
    nSyncWrites,    \* those made by the sync stage
    nCmd,           \* executions of the command
    nRestore,       \* calls of restore_original_time
    reply_len,      \* get_ntp_time: <<len(response)>> once a reply arrived
    query_failed,   \* get_ntp_time returned None
    synced_printed, \* main printed "Time synchronized successfully"
    response,       \* wire decoding: the bytes of the reply
    net_delay,      \* wire decoding: receive_time - send_time, units of 2^-32 s
    adjusted,       \* wire decoding: value returned, <<>> is None
    calls,          \* direct client: method calls made
    last_call       \* direct client: the method called last

vars == <<pc, stack, rv, is_root, libc, original_time, wall, real, skew,
          server_ip, elapsed, send_time, ntp_result, timestamp, attempts,
          success, pending, exitCode, save_result, sync_result,
          restore_result, nSignals, sigInWindow, raised, syncDelta,
          sync_diff, set_calls, nSnap, nQuery, nWrites, nSyncWrites, nCmd,
          nRestore, reply_len, query_failed, synced_printed, response,
          net_delay, adjusted, calls, last_call>>

clockVars == <<wall, real, elapsed>>
wireVars == <<response, net_delay, adjusted>>
mgrVars == <<is_root, libc, skew, server_ip, wireVars>>
counters == <<nSnap, nQuery, nWrites, nSyncWrites, nCmd, nRestore, set_calls,
              sync_diff>>
verdicts == <<success, save_result, sync_result, restore_result>>
sigVars == <<nSignals, sigInWindow, raised>>
mainVars == <<verdicts, pending, exitCode, sigVars>>
clientVars == <<calls, last_call>>
queryVars == <<reply_len, query_failed, synced_printed>>

Abs(x) == IF x < 0 THEN -x ELSE x

\* ------------------------------------------------------ regions of main
PreTry == {"parse", "check_root", "validate", "construct"}
TryBody == {"try_start", "call_save", "after_save", "save_failed",
            "call_sync", "after_sync", "sync_failed", "print_synced",
            "call_command", "after_command"}
Handler == {"except_exc"}
FinallyBlock == {"finally", "call_restore", "after_restore"}

\* the statement of main that is executing (the bottom frame)
MainLoc == IF stack = <<>> THEN pc ELSE stack[Len(stack)]

\* locations of callees that lie outside every try block of the callee
Unguarded == {"sync_entry", "sync_after_ntp", "sync_ret_set", "cmd_entry"}

\* ------------------------------------------------- clock write mechanisms
Mechanisms == <<"settimeofday", "clock_settime", "date">>

\* the value each mechanism writes for timestamp t
SetTimeOfDayValue(t) == (t \div TicksPerSec) * TicksPerSec + (t % TicksPerSec)
ClockSetTimeValue(t) == (t \div TicksPerSec) * TicksPerSec + (t % TicksPerSec)
DateValue(t) == (t \div TicksPerSec) * TicksPerSec

MechanismValue(m, t) ==
    IF m = "settimeofday" THEN SetTimeOfDayValue(t)
    ELSE IF m = "clock_settime" THEN ClockSetTimeValue(t)
    ELSE DateValue(t)

\* ------------------------------------------------------- call and return
Call(entry, retloc) ==
    /\ pc' = entry
    /\ stack' = <<retloc>> \o stack

Return(v) ==
    /\ pc' = Head(stack)
    /\ stack' = Tail(stack)
    /\ rv' = v

\* ------------------------------------------------------------------ Init
InitCommon ==
    /\ stack = <<>>
    /\ rv = FALSE
    /\ is_root \in BOOLEAN
    /\ libc \in BOOLEAN
    /\ original_time = <<>>
    /\ wall = StartTime
    /\ real = StartTime
    /\ skew \in -MaxSkew..MaxSkew
    /\ elapsed = 0
    /\ send_time = 0
    /\ ntp_result = <<>>
    /\ timestamp = 0
    /\ attempts = <<>>
    /\ success = "none"
    /\ pending = FALSE
    /\ exitCode = 0
    /\ save_result = "none"
    /\ sync_result = "none"
    /\ restore_result = "none"
    /\ nSignals = 0
    /\ sigInWindow = FALSE
    /\ raised = FALSE
    /\ syncDelta = 0
    /\ sync_diff = <<>>
    /\ set_calls = <<>>
    /\ nSnap = 0 /\ nQuery = 0 /\ nWrites = 0
    /\ nSyncWrites = 0 /\ nCmd = 0 /\ nRestore = 0
    /\ reply_len = <<>>
    /\ query_failed = FALSE
    /\ synced_printed = FALSE
    /\ calls = 0
    /\ last_call = "none"

\* no reply is being decoded
WireIdle ==
    /\ response = <<>>
    /\ net_delay = 0
    /\ adjusted = <<>>

Init ==
    /\ InitCommon
    /\ WireIdle
    /\ server_ip \in {"", "host", "ip"}
    /\ pc = "parse"

\* ---------------------------------------------------------- environment
\* real time passes, by one 50 ms step of the clocks, where the program
\* waits: for the reply (line 94), for the command (lines 248-255) and, for
\* a direct client, between two calls; the other statements take less
Blocking == {"ntp_recv", "cmd_wait", "idle"}

Tick ==
    /\ pc \in Blocking
    /\ elapsed < MaxElapsed
    /\ elapsed' = elapsed + 1
    /\ wall' = wall + 2
    /\ real' = real + 2
    /\ UNCHANGED <<pc, stack, rv, mgrVars, original_time, send_time,
                   ntp_result, timestamp, attempts, mainVars, syncDelta,
                   counters, clientVars, queryVars>>

\* ------------------------------------------------- CustomTimeManager
\* variant: the failure comes after the assignment of line 56
SaveCurrentTime_LateFailure ==
    /\ pc = "save_entry"
    /\ \/ /\ original_time' = <<wall>>
          /\ nSnap' = nSnap + 1
          /\ Return(TRUE)
       \/ /\ original_time' = <<wall>>
          /\ UNCHANGED nSnap
          /\ Return(FALSE)
    /\ UNCHANGED <<mgrVars, clockVars, send_time, ntp_result, timestamp,
                   attempts, mainVars, syncDelta, nQuery, nWrites,
                   nSyncWrites, nCmd, nRestore, set_calls, sync_diff,
                   clientVars, queryVars>>

\* save_current_time, lines 53-62
SaveCurrentTime ==
    /\ pc = "save_entry"
    /\ \/ /\ original_time' = <<wall>>          \* line 56
          /\ nSnap' = nSnap + 1
          /\ Return(TRUE)
       \/ /\ UNCHANGED <<original_time, nSnap>>  \* time.time() raised: 60-62
          /\ Return(FALSE)
    /\ UNCHANGED <<mgrVars, clockVars, send_time, ntp_result, timestamp,
                   attempts, mainVars, syncDelta, nQuery, nWrites,
                   nSyncWrites, nCmd, nRestore, set_calls, sync_diff,
                   clientVars, queryVars>>

\* validate_ip, lines 64-70: inet_aton accepts only dotted addresses
validate_ip(ip) == ip = "ip"

\* get_ntp_time, lines 74-76
NtpValidate ==
    /\ pc = "ntp_entry"
    /\ IF validate_ip(server_ip)
       THEN pc' = "ntp_send" /\ UNCHANGED <<stack, rv, ntp_result, query_failed>>
       ELSE ntp_result' = <<>> /\ query_failed' = TRUE /\ Return(rv)
    /\ UNCHANGED <<mgrVars, clockVars, original_time, send_time, timestamp,
                   attempts, mainVars, syncDelta, counters, clientVars,
                   reply_len, synced_printed>>

\* get_ntp_time, lines 82-91: build the packet, open the socket, send
NtpSend ==
    /\ pc = "ntp_send"
    /\ \/ /\ send_time' = wall
          /\ nQuery' = nQuery + 1
          /\ pc' = "ntp_recv"
          /\ UNCHANGED <<stack, rv, ntp_result, query_failed>>
       \/ /\ ntp_result' = <<>>                  \* socket error: 128-130
          /\ query_failed' = TRUE
          /\ Return(rv)
          /\ UNCHANGED <<send_time, nQuery>>
    /\ UNCHANGED <<mgrVars, clockVars, original_time, timestamp, attempts,
                   mainVars, syncDelta, nSnap, nWrites, nSyncWrites, nCmd,
                   nRestore, set_calls, sync_diff, clientVars, reply_len,
                   synced_printed>>

\* lines 102-115: the adjusted timestamp of a reply whose transmit
\* timestamp is ts, sent at st and received at rt; the clocks advance in
\* steps of two units, so rt - st is even and the halving is exact
AdjustedTimestamp(ts, st, rt) == ts - ((rt - st) \div 2)

ReplyLens == {0, MinReply - 1, MinReply, MinReply + 1}

\* variant: the length test of line 98 is off by one
NtpParse_OffByOne(len, ts, st, rt) ==
    IF len < MinReply - 1 THEN <<>> ELSE <<AdjustedTimestamp(ts, st, rt)>>

\* get_ntp_time, lines 98-120: None for a short reply, else the adjusted
\* timestamp of a reply of len bytes with transmit timestamp ts
NtpParse(len, ts, st, rt) ==
    IF len < MinReply THEN <<>> ELSE <<AdjustedTimestamp(ts, st, rt)>>

\* get_ntp_time, lines 94-130: wait for the reply and parse it
NtpReceive ==
    /\ pc = "ntp_recv"
    /\ \/ \E len \in ReplyLens :
            /\ reply_len' = <<len>>
            /\ ntp_result' = NtpParse(len, real + skew, send_time, wall)
            /\ query_failed' = (len < MinReply)
       \/ /\ ntp_result' = <<>>                   \* timeout or error: 122-130
          /\ query_failed' = TRUE
          /\ UNCHANGED reply_len
    /\ Return(rv)
    /\ UNCHANGED <<mgrVars, clockVars, original_time, send_time, timestamp,
                   attempts, mainVars, syncDelta, counters, clientVars,
                   synced_printed>>

\* variant: the privilege test of lines 134-136 is missing
SetSystemTimeEntry_NoRootCheck ==
    /\ pc = "set_entry"
    /\ attempts' = <<>>
    /\ IF ~libc THEN Return(FALSE)
       ELSE pc' = "set_m1" /\ UNCHANGED <<stack, rv>>
    /\ UNCHANGED <<mgrVars, clockVars, original_time, send_time, ntp_result,
                   timestamp, mainVars, syncDelta, counters, clientVars, queryVars>>

\* set_system_time, lines 132-142
SetSystemTimeEntry ==
    /\ pc = "set_entry"
    /\ attempts' = <<>>
    /\ IF ~is_root THEN Return(FALSE)
       ELSE IF ~libc THEN Return(FALSE)
       ELSE pc' = "set_m1" /\ UNCHANGED <<stack, rv>>
    /\ UNCHANGED <<mgrVars, clockVars, original_time, send_time, ntp_result,
                   timestamp, mainVars, syncDelta, counters, clientVars, queryVars>>

MechPc == <<"set_m1", "set_m2", "set_m3">>

\* variant: a successful mechanism does not end the chain
SetMechanism_NoStop(k, ok) ==
    /\ pc = MechPc[k]
    /\ attempts' = Append(attempts, [mech |-> Mechanisms[k], ok |-> ok])
    /\ nWrites' = nWrites + 1
    /\ nSyncWrites' = IF Head(stack) = "sync_ret_set"
                      THEN nSyncWrites + 1 ELSE nSyncWrites
    /\ IF ok
       THEN /\ wall' = MechanismValue(Mechanisms[k], timestamp)
            /\ syncDelta' = IF Head(stack) = "sync_ret_set"
                            THEN MechanismValue(Mechanisms[k], timestamp) - wall
                            ELSE syncDelta
       ELSE UNCHANGED <<wall, syncDelta>>
    /\ IF k < Len(Mechanisms)
       THEN pc' = MechPc[k + 1] /\ UNCHANGED <<stack, rv>>
       ELSE Return(ok)
    /\ UNCHANGED <<mgrVars, real, elapsed, original_time, send_time,
                   ntp_result, timestamp, mainVars, nSnap, nQuery, nCmd,
                   nRestore, set_calls, sync_diff, clientVars, queryVars>>

\* set_system_time, lines 144-181: one write mechanism is tried
SetMechanism(k, ok) ==
    /\ pc = MechPc[k]
    /\ attempts' = Append(attempts, [mech |-> Mechanisms[k], ok |-> ok])
    /\ nWrites' = nWrites + 1
    /\ nSyncWrites' = IF Head(stack) = "sync_ret_set"
                      THEN nSyncWrites + 1 ELSE nSyncWrites
    /\ IF ok
       THEN /\ wall' = MechanismValue(Mechanisms[k], timestamp)
            /\ syncDelta' = IF Head(stack) = "sync_ret_set"
                            THEN MechanismValue(Mechanisms[k], timestamp) - wall
                            ELSE syncDelta
            /\ Return(TRUE)
       ELSE /\ UNCHANGED <<wall, syncDelta>>
            /\ IF k < Len(Mechanisms)
               THEN pc' = MechPc[k + 1] /\ UNCHANGED <<stack, rv>>
               ELSE Return(FALSE)                \* lines 180-181
    /\ UNCHANGED <<mgrVars, real, elapsed, original_time, send_time,
                   ntp_result, timestamp, mainVars, nSnap, nQuery, nCmd,
                   nRestore, set_calls, sync_diff, clientVars, queryVars>>

TryMechanism == \E k \in 1..Len(Mechanisms), ok \in BOOLEAN : SetMechanism(k, ok)

\* sync_time_with_server, lines 183-189
SyncEntry ==
    /\ pc = "sync_entry"
    /\ IF ~is_root THEN Return(FALSE) /\ UNCHANGED ntp_result
       ELSE Call("ntp_entry", "sync_after_ntp") /\ ntp_result' = <<>>
                                               /\ UNCHANGED rv
    /\ UNCHANGED <<mgrVars, clockVars, original_time, send_time, timestamp,
                   attempts, mainVars, syncDelta, counters, clientVars, queryVars>>

\* variant: the threshold test of lines 198-200 is missing
SyncCompare_NoSkip ==
    /\ pc = "sync_after_ntp"
    /\ IF ntp_result = <<>>
       THEN Return(FALSE) /\ UNCHANGED <<timestamp, sync_diff, set_calls>>
       ELSE /\ sync_diff' = <<Abs(ntp_result[1] - wall)>>
            /\ timestamp' = ntp_result[1]
            /\ set_calls' = Append(set_calls, <<"sync", ntp_result[1]>>)
            /\ Call("set_entry", "sync_ret_set")
            /\ UNCHANGED rv
    /\ UNCHANGED <<mgrVars, clockVars, original_time, send_time, ntp_result,
                   attempts, mainVars, syncDelta, nSnap, nQuery, nWrites,
                   nSyncWrites, nCmd, nRestore, clientVars, queryVars>>

\* sync_time_with_server, lines 190-202
SyncCompare ==
    /\ pc = "sync_after_ntp"
    /\ IF ntp_result = <<>>
       THEN Return(FALSE) /\ UNCHANGED <<timestamp, sync_diff, set_calls>>
       ELSE /\ sync_diff' = <<Abs(ntp_result[1] - wall)>>
            /\ IF Abs(ntp_result[1] - wall) < Threshold
               THEN Return(TRUE) /\ UNCHANGED <<timestamp, set_calls>>
               ELSE /\ timestamp' = ntp_result[1]
                    /\ set_calls' = Append(set_calls, <<"sync", ntp_result[1]>>)
                    /\ Call("set_entry", "sync_ret_set")
                    /\ UNCHANGED rv
    /\ UNCHANGED <<mgrVars, clockVars, original_time, send_time, ntp_result,
                   attempts, mainVars, syncDelta, nSnap, nQuery, nWrites,
                   nSyncWrites, nCmd, nRestore, clientVars, queryVars>>

\* sync_time_with_server, line 202: return what set_system_time returned
SyncReturn ==
    /\ pc = "sync_ret_set"
    /\ Return(rv)
    /\ UNCHANGED <<mgrVars, clockVars, original_time, send_time, ntp_result,
                   timestamp, attempts, mainVars, syncDelta, counters, clientVars, queryVars>>

\* lines 216-221: the restore target
RestoreTarget(orig, now) == orig + (now - orig)

\* restore_original_time, lines 204-212
RestoreEntry ==
    /\ pc = "restore_entry"
    /\ nRestore' = nRestore + 1
    /\ IF original_time = <<>> THEN Return(FALSE)
       ELSE IF ~is_root THEN Return(FALSE)
       ELSE pc' = "restore_compute" /\ UNCHANGED <<stack, rv>>
    /\ UNCHANGED <<mgrVars, clockVars, original_time, send_time, ntp_result,
                   timestamp, attempts, mainVars, syncDelta, nSnap, nQuery,
                   nWrites, nSyncWrites, nCmd, set_calls, sync_diff,
                   clientVars, queryVars>>

\* restore_original_time, lines 214-224
RestoreCompute ==
    /\ pc = "restore_compute"
    /\ timestamp' = RestoreTarget(original_time[1], wall)
    /\ set_calls' = Append(set_calls,
                           <<"restore", RestoreTarget(original_time[1], wall)>>)
    /\ Call("set_entry", "restore_ret_set")
    /\ UNCHANGED <<rv, mgrVars, clockVars, original_time, send_time,
                   ntp_result, attempts, mainVars, syncDelta, nSnap, nQuery,
                   nWrites, nSyncWrites, nCmd, nRestore, sync_diff,
                   clientVars, queryVars>>

\* restore_original_time, line 224: return what set_system_time returned
RestoreReturn ==
    /\ pc = "restore_ret_set"
    /\ Return(rv)
    /\ UNCHANGED <<mgrVars, clockVars, original_time, send_time, ntp_result,
                   timestamp, attempts, mainVars, syncDelta, counters, clientVars, queryVars>>

\* ------------------------------------------------------ execute_command
\* lines 231-245: spawn the shell
CommandStart ==
    /\ pc = "cmd_entry"
    /\ nCmd' = nCmd + 1
    /\ \/ pc' = "cmd_wait" /\ UNCHANGED <<stack, rv>>
       \/ Return(FALSE)                           \* Popen raised: 267-269
    /\ UNCHANGED <<mgrVars, clockVars, original_time, send_time, ntp_result,
                   timestamp, attempts, mainVars, syncDelta, nSnap, nQuery,
                   nWrites, nSyncWrites, nRestore, set_calls, sync_diff,
                   clientVars, queryVars>>

\* lines 247-260: stream the output, wait, compare the return code with 0
CommandWait ==
    /\ pc = "cmd_wait"
    /\ \E return_code \in {0, 1} : Return(return_code = 0)
    /\ UNCHANGED <<mgrVars, clockVars, original_time, send_time, ntp_result,
                   timestamp, attempts, mainVars, syncDelta, counters, clientVars, queryVars>>

\* ------------------------------------------------------------------ main
\* every variable the statements of main leave alone
mainFrame == <<mgrVars, clockVars, original_time, send_time, ntp_result,
               timestamp, attempts, syncDelta, counters, clientVars>>

\* sys.exit(code) outside the try statement, or the end of the script
Exit(code) ==
    /\ pc' = "exit"
    /\ stack' = <<>>
    /\ exitCode' = code

\* line 301: parse_args leaves with status 2 on a malformed command line
ParseArgs ==
    /\ pc = "parse"
    /\ \/ pc' = "check_root" /\ UNCHANGED <<stack, exitCode>>
       \/ Exit(2)
    /\ UNCHANGED <<rv, verdicts, pending, sigVars, mainFrame, queryVars>>

\* variant: the privilege check is missing
CheckRoot_Missing ==
    /\ pc = "check_root"
    /\ pc' = "validate"
    /\ UNCHANGED <<stack, exitCode, rv, verdicts, pending, sigVars, mainFrame, queryVars>>

\* lines 303-307
CheckRoot ==
    /\ pc = "check_root"
    /\ IF ~is_root THEN Exit(1)
       ELSE pc' = "validate" /\ UNCHANGED <<stack, exitCode>>
    /\ UNCHANGED <<rv, verdicts, pending, sigVars, mainFrame, queryVars>>

\* lines 309-316
ValidateInputs ==
    /\ pc = "validate"
    /\ \E command_empty \in BOOLEAN :
         IF server_ip = "" \/ command_empty THEN Exit(1)
         ELSE pc' = "construct" /\ UNCHANGED <<stack, exitCode>>
    /\ UNCHANGED <<rv, verdicts, pending, sigVars, mainFrame, queryVars>>

\* line 319 (lines 22-45): the manager starts without a snapshot
Construct ==
    /\ pc = "construct"
    /\ pc' = "try_start"
    /\ original_time' = <<>>
    /\ UNCHANGED <<stack, rv, mainVars, mgrVars, clockVars, send_time,
                   ntp_result, timestamp, attempts, syncDelta, counters,
                   clientVars, queryVars>>

\* lines 321-322
TryStart ==
    /\ pc = "try_start"
    /\ pc' = "call_save"
    /\ UNCHANGED <<stack, rv, mainVars, mainFrame, queryVars>>

\* line 325: call save_current_time
CallSave ==
    /\ pc = "call_save"
    /\ Call("save_entry", "after_save")
    /\ UNCHANGED <<rv, mainVars, mainFrame, queryVars>>

\* variant: a failed snapshot does not stop the transaction
AfterSave_IgnoreFailure ==
    /\ pc = "after_save"
    /\ save_result' = IF rv THEN "true" ELSE "false"
    /\ pc' = "call_sync"
    /\ UNCHANGED <<stack, rv, success, sync_result, restore_result, pending,
                   exitCode, sigVars, mainFrame, queryVars>>

\* line 325: test the result
AfterSave ==
    /\ pc = "after_save"
    /\ save_result' = IF rv THEN "true" ELSE "false"
    /\ pc' = IF rv THEN "call_sync" ELSE "save_failed"
    /\ UNCHANGED <<stack, rv, success, sync_result, restore_result, pending,
                   exitCode, sigVars, mainFrame, queryVars>>

\* variant: sys.exit(1) ends the process at once, skipping the finally block
ExitInTry_Direct ==
    /\ pc \in {"save_failed", "sync_failed"}
    /\ Exit(1)
    /\ UNCHANGED <<rv, verdicts, pending, sigVars, mainFrame, queryVars>>

\* lines 326-327 and 331-332: sys.exit(1) inside the try statement raises
\* SystemExit, which no except clause matches: the finally block runs
ExitInTry ==
    /\ pc \in {"save_failed", "sync_failed"}
    /\ pc' = "finally"
    /\ pending' = TRUE
    /\ UNCHANGED <<stack, rv, verdicts, exitCode, sigVars, mainFrame, queryVars>>

\* variant: the sync stage is left out
CallSync_Skipped ==
    /\ pc = "call_sync"
    /\ pc' = "call_command"
    /\ UNCHANGED <<stack, rv, mainVars, mainFrame, queryVars>>

\* line 330: call sync_time_with_server
CallSync ==
    /\ pc = "call_sync"
    /\ Call("sync_entry", "after_sync")
    /\ UNCHANGED <<rv, mainVars, mainFrame, queryVars>>

\* variant: a failed sync stage does not stop the transaction
AfterSync_Continue ==
    /\ pc = "after_sync"
    /\ sync_result' = IF rv THEN "true" ELSE "false"
    /\ pc' = "print_synced"
    /\ UNCHANGED <<stack, rv, success, save_result, restore_result, pending,
                   exitCode, sigVars, mainFrame, queryVars>>

\* line 330: test the result
AfterSync ==
    /\ pc = "after_sync"
    /\ sync_result' = IF rv THEN "true" ELSE "false"
    /\ pc' = IF rv THEN "print_synced" ELSE "sync_failed"
    /\ UNCHANGED <<stack, rv, success, save_result, restore_result, pending,
                   exitCode, sigVars, mainFrame, queryVars>>

\* line 334: report the synchronisation
PrintSynced ==
    /\ pc = "print_synced"
    /\ pc' = "call_command"
    /\ synced_printed' = TRUE
    /\ UNCHANGED <<stack, rv, mainVars, mainFrame, reply_len, query_failed>>

\* line 337: call execute_command
CallCommand ==
    /\ pc = "call_command"
    /\ Call("cmd_entry", "after_command")
    /\ UNCHANGED <<rv, mainVars, mainFrame, queryVars>>

\* lines 337-342: record the verdict and print it
AfterCommand ==
    /\ pc = "after_command"
    /\ success' = IF rv THEN "true" ELSE "false"
    /\ pc' = "finally"
    /\ UNCHANGED <<stack, rv, save_result, sync_result, restore_result,
                   pending, exitCode, sigVars, mainFrame, queryVars>>

\* lines 346-347: an Exception that left the try body is reported
ExceptHandler ==
    /\ pc = "except_exc"
    /\ pc' = "finally"
    /\ UNCHANGED <<stack, rv, mainVars, mainFrame, queryVars>>

\* lines 348-350: the finally block announces the restore
FinallyStart ==
    /\ pc = "finally"
    /\ pc' = "call_restore"
    /\ UNCHANGED <<stack, rv, mainVars, mainFrame, queryVars>>

\* line 351: call restore_original_time
CallRestore ==
    /\ pc = "call_restore"
    /\ Call("restore_entry", "after_restore")
    /\ UNCHANGED <<rv, mainVars, mainFrame, queryVars>>

\* variant: a failed restore ends the run with status 1
AfterRestore_FailExit ==
    /\ pc = "after_restore"
    /\ restore_result' = IF rv THEN "true" ELSE "false"
    /\ IF pending \/ ~rv THEN Exit(1)
       ELSE pc' = "completed" /\ UNCHANGED <<stack, exitCode>>
    /\ UNCHANGED <<rv, success, save_result, sync_result, pending, sigVars,
                   mainFrame, queryVars>>

\* lines 351-354: report the restore; a pending SystemExit then leaves
AfterRestore ==
    /\ pc = "after_restore"
    /\ restore_result' = IF rv THEN "true" ELSE "false"
    /\ IF pending THEN Exit(1)
       ELSE pc' = "completed" /\ UNCHANGED <<stack, exitCode>>
    /\ UNCHANGED <<rv, success, save_result, sync_result, pending, sigVars,
                   mainFrame, queryVars>>

\* line 356 and the end of the script
Completed ==
    /\ pc = "completed"
    /\ Exit(0)
    /\ UNCHANGED <<rv, verdicts, pending, sigVars, mainFrame, queryVars>>

\* lines 272-275 and 281-282: SIGINT or SIGTERM runs signal_handler, whose
\* variant: the statements before the try block are protected as well
Signal_ProtectedEverywhere ==
    /\ pc # "exit"
    /\ MainLoc # "idle"
    /\ nSignals < MaxSignals
    /\ nSignals' = nSignals + 1
    /\ sigInWindow' = (sigInWindow \/ (nSnap > 0 /\ nRestore = 0))
    /\ IF MainLoc \in PreTry \cup TryBody \cup Handler
       THEN /\ pc' = "finally"
            /\ stack' = <<>>
            /\ pending' = TRUE
            /\ UNCHANGED exitCode
       ELSE Exit(1) /\ UNCHANGED pending
    /\ UNCHANGED <<rv, verdicts, raised, mainFrame, queryVars>>

\* sys.exit(1) raises SystemExit at the statement being executed: inside
\* the try body or an except clause the finally block runs next, anywhere
\* else (the finally block included) the exception leaves main
Signal ==
    /\ pc # "exit"
    /\ MainLoc # "idle"
    /\ nSignals < MaxSignals
    /\ nSignals' = nSignals + 1
    /\ sigInWindow' = (sigInWindow \/ (nSnap > 0 /\ nRestore = 0))
    /\ IF MainLoc \in TryBody \cup Handler
       THEN /\ pc' = "finally"
            /\ stack' = <<>>
            /\ pending' = TRUE
            /\ UNCHANGED exitCode
       ELSE Exit(1) /\ UNCHANGED pending
    /\ UNCHANGED <<rv, verdicts, raised, mainFrame, queryVars>>

\* line 346: an Exception leaves sync_time_with_server or execute_command
\* from a statement that no try block of the callee covers
RaiseUnexpected ==
    /\ stack # <<>>
    /\ MainLoc \in TryBody
    /\ pc \in Unguarded
    /\ pc' = "except_exc"
    /\ stack' = <<>>
    /\ raised' = TRUE
    /\ UNCHANGED <<rv, verdicts, pending, exitCode, nSignals, sigInWindow,
                   mainFrame, queryVars>>

Methods ==
    \/ SaveCurrentTime
    \/ NtpValidate
    \/ NtpSend
    \/ NtpReceive
    \/ SetSystemTimeEntry
    \/ TryMechanism
    \/ SyncEntry
    \/ SyncCompare
    \/ SyncReturn
    \/ RestoreEntry
    \/ RestoreCompute
    \/ RestoreReturn

Next ==
    \/ Tick
    \/ Methods
    \/ CommandStart
    \/ CommandWait
    \/ ParseArgs
    \/ CheckRoot
    \/ ValidateInputs
    \/ Construct
    \/ TryStart
    \/ CallSave
    \/ AfterSave
    \/ ExitInTry
    \/ CallSync
    \/ AfterSync
    \/ PrintSynced
    \/ CallCommand
    \/ AfterCommand
    \/ ExceptHandler
    \/ FinallyStart
    \/ CallRestore
    \/ AfterRestore
    \/ Completed
    \/ Signal
    \/ RaiseUnexpected

Spec == Init /\ [][Next]_vars

\* --------------------------------------------- the manager used directly
\* a client that constructs a CustomTimeManager and calls its methods
InitMgr ==
    /\ InitCommon
    /\ WireIdle
    /\ server_ip \in {"host", "ip"}
    /\ pc = "idle"

\* the client calls one method; set_system_time gets a timestamp near now
ClientCall ==
    /\ pc = "idle"
    /\ calls < MaxCalls
    /\ calls' = calls + 1
    /\ \/ /\ Call("save_entry", "idle")
          /\ last_call' = "save"
          /\ UNCHANGED <<timestamp, set_calls>>
       \/ /\ Call("sync_entry", "idle")
          /\ last_call' = "sync"
          /\ UNCHANGED <<timestamp, set_calls>>
       \/ /\ Call("restore_entry", "idle")
          /\ last_call' = "restore"
          /\ UNCHANGED <<timestamp, set_calls>>
       \/ \E d \in {-MaxSkew, MaxSkew} :
            /\ timestamp' = wall + d
            /\ set_calls' = Append(set_calls, <<"client", wall + d>>)
            /\ Call("set_entry", "idle")
            /\ last_call' = "set"
    /\ UNCHANGED <<rv, mgrVars, clockVars, original_time, send_time,
                   ntp_result, attempts, mainVars, syncDelta, nSnap, nQuery,
                   nWrites, nSyncWrites, nCmd, nRestore, sync_diff,
                   queryVars>>

NextMgr ==
    \/ Tick
    \/ Methods
    \/ ClientCall

SpecMgr == InitMgr /\ [][NextMgr]_vars

\* ------------------------------------------- decoding of the reply bytes
\* Numbers too wide for one machine integer are kept as digits in base
\* 2^16, most significant first.  A timestamp <<a, b, c, d>> stands for
\* a * 2^16 + b seconds plus (c * 2^16 + d) / 2^32 seconds; a carries the
\* sign.  The rounding of Python's floats is not represented.
Base == 256 * 256

\* line 110: 2208988800 = 33706 * 2^16 + 32384
NtpEpoch == <<33706, 32384>>

\* variant: the fields are read least significant byte first
Unpack32_LittleEndian(b) == <<b[4] * 256 + b[3], b[2] * 256 + b[1]>>

\* struct.unpack('!I', b): four bytes, most significant first
Unpack32(b) == <<b[1] * 256 + b[2], b[3] * 256 + b[4]>>

\* line 103: struct.unpack('!II', response[40:48])
transmit_timestamp(resp) ==
    LET field == SubSeq(resp, 41, 48)
    IN  <<Unpack32(SubSeq(field, 1, 4)), Unpack32(SubSeq(field, 5, 8))>>

\* x - y on timestamps, borrowing from digit to digit
Sub4(x, y) ==
    LET d4 == x[4] - y[4]
        b4 == IF d4 < 0 THEN 1 ELSE 0
        d3 == x[3] - y[3] - b4
        b3 == IF d3 < 0 THEN 1 ELSE 0
        d2 == x[2] - y[2] - b3
        b2 == IF d2 < 0 THEN 1 ELSE 0
    IN  <<x[1] - y[1] - b2, d2 + b2 * Base, d3 + b3 * Base, d4 + b4 * Base>>

\* lines 110-111: ntp_seconds - 2208988800 + ntp_fraction / 2^32
unix_timestamp(ntp_seconds, ntp_fraction) ==
    Sub4(<<ntp_seconds[1], ntp_seconds[2], ntp_fraction[1], ntp_fraction[2]>>,
         <<NtpEpoch[1], NtpEpoch[2], 0, 0>>)

\* line 114: (receive_time - send_time) / 2, as a timestamp
network_delay(d) == <<0, 0, (d \div 2) \div Base, (d \div 2) % Base>>

\* lines 98-120: the value get_ntp_time returns for a reply
get_ntp_time(resp, d) ==
    IF Len(resp) < MinReply THEN <<>>
    ELSE LET tt == transmit_timestamp(resp)
         IN  <<Sub4(unix_timestamp(tt[1], tt[2]), network_delay(d))>>

\* the replies decoded: the timestamp field takes every combination of
\* these byte values, the other bytes differ from position to position
ByteVals == {0, 255}
Delays == {0, 2, 2 * Base + 2, 214748364}
Bodies == [1..8 -> ByteVals] \cup {<<233, 49, 168, 78, 0, 0, 0, 0>>}

Reply(len, body) ==
    [i \in 1..len |-> IF i > 40 /\ i <= 48 THEN body[i - 40] ELSE i]

InitNtp ==
    /\ InitCommon
    /\ is_root /\ libc /\ skew = 0
    /\ server_ip = "ip"
    /\ pc = "ntp_parse"
    /\ \E len \in ReplyLens \ {0}, body \in Bodies : response = Reply(len, body)
    /\ net_delay \in Delays
    /\ adjusted = <<>>

\* lines 98-120 applied to the reply
ParseReply ==
    /\ pc = "ntp_parse"
    /\ pc' = "ntp_parsed"
    /\ adjusted' = get_ntp_time(response, net_delay)
    /\ UNCHANGED <<stack, rv, is_root, libc, skew, server_ip, response,
                   net_delay, clockVars, original_time, send_time, ntp_result,
                   timestamp, attempts, mainVars, syncDelta, counters,
                   clientVars, queryVars>>

NextNtp == ParseReply

SpecNtp == InitNtp /\ [][NextNtp]_vars

\* ================================================================ claims
Interrupted == nSignals > 0

\* C1: whenever the sync stage changed the wall clock by a non-zero skew and
\* the restore's clock write succeeded, the wall clock after the restore
\* reads what the untouched clock would read (snapshot plus real elapsed
\* time): the skew is removed.
C1_RestoreRemovesSkew ==
    (syncDelta # 0 /\ restore_result = "true") => wall = real

\* C2: on every path without an interrupt on which a snapshot was captured,
\* restore_original_time is called exactly once before the process exits;
\* it is never called twice, and once it has been called neither the sync
\* stage nor the command is running or still to come.
C2_RestoreOncePerSnapshot ==
    /\ nRestore <= 1
    /\ (pc = "exit" /\ ~Interrupted /\ nSnap > 0) => nRestore = 1
    /\ nRestore > 0 => MainLoc \in {"after_restore", "completed", "exit"}

C2_Witness ==
    /\ pc = "exit"
    /\ ~Interrupted
    /\ nSnap > 0
    /\ nRestore = 1
    /\ success = "false"

\* C3: if a signal (the only one of the run) is delivered once the snapshot is taken and before
\* restore_original_time is called, restore_original_time is still called
\* before the process terminates.
C3_InterruptStillRestores ==
    (pc = "exit" /\ sigInWindow /\ nSignals = 1 /\ ~raised) => nRestore >= 1

\* C4: without an interrupt, when the sync stage succeeded and the command
\* ran, the exit status is zero exactly when the command succeeded; when
\* privilege is missing or the snapshot failed the exit status is non-zero.
C4_ExitStatusReflectsCommand ==
    (pc = "exit" /\ ~Interrupted) =>
        /\ (sync_result = "true" /\ success # "none")
              => (exitCode = 0 <=> success = "true")
        /\ (~is_root \/ save_result = "false") => exitCode # 0

SyncWriteExhausted ==
    /\ sync_result = "false"
    /\ nSyncWrites = Len(Mechanisms)

\* C7 as stated: when the sync stage's clock write fails with all mechanisms
\* exhausted, the command is still executed and restore is attempted.
C7_ContinuesAfterWriteFailure ==
    (pc = "exit" /\ ~Interrupted /\ SyncWriteExhausted) =>
        (nCmd >= 1 /\ nRestore >= 1)

\* C7 amended: when the sync stage's clock write fails with all mechanisms
\* exhausted, the command is not executed, the exit status is non-zero and,
\* without an interrupt, restore is still attempted once.
C7_AbortsAfterWriteFailure ==
    SyncWriteExhausted =>
        /\ nCmd = 0
        /\ success = "none"
        /\ pc = "exit" => exitCode # 0
        /\ (pc = "exit" /\ ~Interrupted) => nRestore = 1

C7_Witness ==
    /\ SyncWriteExhausted
    /\ pc = "exit"
    /\ ~Interrupted
    /\ nRestore = 1
    /\ nCmd = 0

SetReturnLocs == {"sync_ret_set", "restore_ret_set"}

\* C8: the mechanisms are tried in the order settimeofday, clock_settime,
\* date; a mechanism is tried only after all earlier ones failed; nothing is
\* tried after a success; set_system_time returns success exactly when the
\* last mechanism tried succeeded (so two failures and a success of the
\* third give success after three attempts).
C8_MechanismOrder ==
    /\ Len(attempts) <= Len(Mechanisms)
    /\ \A i \in 1..Len(attempts) : attempts[i].mech = Mechanisms[i]
    /\ \A i \in 1..(Len(attempts) - 1) : ~attempts[i].ok
    /\ \A k \in 1..Len(Mechanisms) :
         pc = MechPc[k] =>
            /\ Len(attempts) = k - 1
            /\ \A i \in 1..Len(attempts) : ~attempts[i].ok
    /\ pc \in SetReturnLocs =>
         (rv <=> (attempts # <<>> /\ attempts[Len(attempts)].ok))

C8_Witness ==
    /\ pc = "sync_ret_set"
    /\ rv
    /\ Len(attempts) = 3
    /\ ~attempts[1].ok /\ ~attempts[2].ok /\ attempts[3].ok
    /\ attempts[3].mech = "date"

\* C9: without privilege no write mechanism is ever invoked, the clock is
\* never written, sync_time_with_server sends no query, and set_system_time,
\* sync_time_with_server and restore_original_time all return failure.
C9_NoPrivilegeNoAttempt ==
    ~is_root =>
        /\ nWrites = 0
        /\ attempts = <<>>
        /\ \A k \in 1..Len(Mechanisms) : pc # MechPc[k]
        /\ wall = real
        /\ nQuery = 0
        /\ (pc = "idle" /\ last_call \in {"set", "sync", "restore"}) => ~rv

C9_Witness ==
    /\ ~is_root
    /\ libc
    /\ pc = "idle"
    /\ last_call = "set"
    /\ set_calls # <<>>
    /\ ~rv

\* the calls of set_system_time made by the sync stage
SyncSetCalls == SelectSeq(set_calls, LAMBDA c : c[1] = "sync")

\* C10: when the query succeeded and |server_time - local_time| is below
\* 0.1 s, the sync stage invokes no write mechanism and does not call
\* set_system_time, it reports success and (without interrupt or exception)
\* the command is run; when the difference is 0.1 s or more,
\* set_system_time is called exactly once, with the server time.
C10_ThresholdSkip ==
    /\ (sync_diff # <<>> /\ sync_diff[1] < Threshold) =>
          /\ nSyncWrites = 0
          /\ SyncSetCalls = <<>>
          /\ sync_result # "false"
          /\ pc = "after_sync" => rv
          /\ (pc = "exit" /\ ~Interrupted /\ ~raised) => nCmd = 1
    /\ (sync_diff # <<>> /\ sync_diff[1] >= Threshold) =>
          SyncSetCalls = << <<"sync", ntp_result[1]>> >>
    /\ sync_diff = <<>> => SyncSetCalls = <<>>

C10_Witness ==
    /\ sync_diff # <<>>
    /\ sync_diff[1] > 0
    /\ sync_diff[1] < Threshold
    /\ pc = "exit"
    /\ nSyncWrites = 0
    /\ nCmd = 1

\* C11: a reply shorter than 48 bytes makes get_ntp_time return None, never
\* a timestamp; the sync stage then reports failure, does not call
\* set_system_time and invokes no write mechanism.
C11_ShortReplyFails ==
    (reply_len # <<>> /\ reply_len[1] < MinReply) =>
        /\ ntp_result = <<>>
        /\ query_failed
        /\ sync_result # "true"
        /\ pc = "after_sync" => ~rv
        /\ SyncSetCalls = <<>>
        /\ nSyncWrites = 0

C11_Witness ==
    /\ reply_len = <<MinReply - 1>>
    /\ sync_result = "false"
    /\ pc = "exit"
    /\ nWrites = 0

\* C12: when the query fails the sync stage reports failure, makes no clock
\* write, the run is not reported as synchronised, the command is not run
\* and (without an interrupt) restore is still attempted once.
C12_QueryFailureIsFailure ==
    query_failed =>
        /\ ntp_result = <<>>
        /\ sync_result # "true"
        /\ pc = "after_sync" => ~rv
        /\ SyncSetCalls = <<>> /\ nSyncWrites = 0
        /\ ~synced_printed
        /\ nCmd = 0
        /\ (pc = "exit" /\ ~Interrupted) => nRestore = 1

C12_Witness ==
    /\ query_failed
    /\ reply_len = <<>>
    /\ nQuery = 1
    /\ pc = "exit"
    /\ ~Interrupted
    /\ sync_result = "false"
    /\ nRestore = 1

\* the exit status of a run without interrupt, from the outcomes of the
\* snapshot and the sync stage alone
StatusOf(save, sync) == IF save = "false" \/ sync = "false" THEN 1 ELSE 0

\* C13: without an interrupt the exit status of a run that reached the
\* restore is determined by the snapshot and sync outcomes, whatever the
\* restore returned, and the command verdict is not changed once
\* restore_original_time has been called.
C13_RestoreOnlyWarns ==
    /\ [](  (pc = "exit" /\ ~Interrupted /\ restore_result # "none")
              => exitCode = StatusOf(save_result, sync_result))
    /\ [][nRestore > 0 => success' = success]_vars

C13_Witness ==
    /\ pc = "exit"
    /\ ~Interrupted
    /\ restore_result = "false"
    /\ original_time # <<>>
    /\ success = "true"
    /\ exitCode = 0

\* x + y on timestamps, carrying from digit to digit
Add4(x, y) ==
    LET s4 == x[4] + y[4]
        s3 == x[3] + y[3] + (s4 \div Base)
        s2 == x[2] + y[2] + (s3 \div Base)
    IN  <<x[1] + y[1] + (s2 \div Base), s2 % Base, s3 % Base, s4 % Base>>

\* S and F of a reply: the integers written most significant byte first
\* at byte offsets 40..43 and 44..47, as one timestamp S + F / 2^32
WireStamp(resp) ==
    <<resp[41] * 256 + resp[42], resp[43] * 256 + resp[44],
      resp[45] * 256 + resp[46], resp[47] * 256 + resp[48]>>

\* C14: for every reply of at least 48 bytes the value returned, plus half
\* the round trip, plus 2208988800, is S + F / 2^32 (that is, the value is
\* (S - 2208988800) + F/2^32 - (receive_time - send_time)/2); for
\* S = 3912345678, F = 0 and no delay it is 1703356878
\* (= 25991 * 2^16 + 10702).
C14_AdjustedTimestampFormula ==
    (pc = "ntp_parsed" /\ Len(response) >= MinReply) =>
        /\ adjusted # <<>>
        /\ Add4(Add4(adjusted[1], <<0, 0, (net_delay \div 2) \div Base,
                                           (net_delay \div 2) % Base>>),
                <<33706, 32384, 0, 0>>) = WireStamp(response)
        /\ \A i \in 2..4 : adjusted[1][i] >= 0 /\ adjusted[1][i] < Base
        /\ (WireStamp(response) = <<59697, 43086, 0, 0>> /\ net_delay = 0)
              => adjusted[1] = <<25991, 10702, 0, 0>>

C14_Witness ==
    /\ pc = "ntp_parsed"
    /\ Len(response) = MinReply
    /\ WireStamp(response) = <<59697, 43086, 0, 0>>
    /\ net_delay = 0
    /\ adjusted = << <<25991, 10702, 0, 0>> >>

\* C15: with privilege present, set_system_time returns failure only after
\* all three mechanisms have been tried and each has failed.
C15_PrivilegedFailureTriesAll ==
    (is_root /\ pc \in SetReturnLocs /\ rv = FALSE) =>
        /\ Len(attempts) = 3
        /\ \A i \in 1..3 : ~attempts[i].ok

\* C16: whenever a write mechanism has been invoked the snapshot is
\* already set, and once set the snapshot never changes.
C16_SnapshotBeforeWrite ==
    /\ [](nWrites > 0 => original_time # <<>>)
    /\ [][original_time # <<>> => original_time' = original_time]_vars

C16_Witness ==
    /\ nWrites > 1
    /\ nRestore > 0
    /\ original_time # <<>>
    /\ wall # original_time[1]

\* C18: the command is executed at most once, only after the snapshot was
\* captured and the sync stage returned success, and never once the finally
\* block has been entered; after restore has been called nothing is queried
\* and the sync stage writes nothing; after restore has returned no
\* mechanism is invoked.
C18_CommandOnceRestoredTerminal ==
    /\ [](nCmd <= 1)
    /\ [](nCmd > 0 => (nSnap > 0 /\ original_time # <<>>
                                /\ sync_result = "true"))
    /\ [][(MainLoc \in FinallyBlock \/ nRestore > 0) =>
            (nCmd' = nCmd /\ nQuery' = nQuery
                          /\ nSyncWrites' = nSyncWrites)]_vars
    /\ [][restore_result # "none" =>
            (nWrites' = nWrites /\ nRestore' = nRestore)]_vars

C18_Witness ==
    /\ pc = "exit"
    /\ nCmd = 1
    /\ nQuery = 1
    /\ nSyncWrites > 0
    /\ restore_result = "true"

\* C19: a signal that arrives while main is before its try block ends the
\* process at once with a non-zero status, nothing of the transaction
\* (snapshot, query, write, command, restore) having happened.
C19_EarlyInterruptDoesNothing ==
    [][(MainLoc \in PreTry /\ nSignals' = nSignals + 1) =>
          /\ pc' = "exit"
          /\ exitCode' # 0
          /\ nSnap' = 0 /\ original_time' = <<>>
          /\ nQuery' = 0
          /\ nWrites' = 0
          /\ nCmd' = 0
          /\ nRestore' = 0
          /\ wall' = wall]_vars

C19_Witness ==
    /\ pc = "exit"
    /\ nSignals = 1
    /\ exitCode = 1
    /\ is_root
    /\ server_ip = "ip"
    /\ save_result = "none"
    /\ nSnap = 0
    /\ nRestore = 0

====
